---- MODULE Spec2Model ----
(***************************************************************************)
(* A model of the game adjudication core of LLM-Chess-Eval:                *)
(* GameManager (src/src/game_manager.py), MoveValidator                    *)
(* (src/src/move_validator.py), and the two move sources, LLMPlayer        *)
(* (src/src/llm_player.py) and ChessEngine (src/src/chess_engine.py).      *)
(*                                                                         *)
(* The chess rules come from the python-chess library.  Piece placement is *)
(* not modelled: a chess.Board is the part of a position the program       *)
(* reads (side to move, halfmove clock, how often the position has         *)
(* occurred, whether the side to move has legal moves / is mated, whether  *)
(* material is insufficient) plus the move stack; which of these hold      *)
(* after a move is chosen by the environment within the library's rules.   *)
(***************************************************************************)
EXTENDS Integers, Sequences, FiniteSets, TLC

VARIABLES
    board,                \* GameManager.board
    illegal_moves_count,  \* MoveValidator.illegal_moves_count (a dict)
    game_history,         \* GameManager.game_history
    game,                 \* the arguments of the play_* call in progress
    game_record,          \* local game_record of the play_* call
    is_llm_turn,          \* local is_llm_turn of play_llm_vs_engine
    engine,               \* the ChessEngine of the call: "none", "started", "stopped"
    pc,                   \* position of the play_* call
    nreq,                 \* history: proposals requested from sources in this game
    movers,               \* history: the source of every applied move
    last,                 \* history: the latest request and what it returned
    ngames,               \* history: play_* calls made so far
    nstops,               \* history: calls of engine.stop() in this game
    rejects,              \* history: rejected proposals of each source in this game
    other,                \* the locals of a second play_* call, not running now
    cap,                  \* the limits this behaviour is explored under
    results_manager,      \* ResultsManager: results, and what save_results wrote
    mpc,                  \* position of main()
    llm_player,           \* LLMPlayer: provider_config and the rate limiter's fields
    now,                  \* time.time()
    issued                \* history: the times at which completion requests went out

vars == <<board, illegal_moves_count, game_history, game, game_record,
          is_llm_turn, engine, pc, nreq, movers, last, ngames, nstops, rejects,
          other, cap, results_manager, mpc, llm_player, now, issued>>

\* what main() holds around the GameManager
mainVars == <<results_manager, mpc>>

\* an LLMPlayer's rate limiter and the clock
limiterVars == <<llm_player, now, issued>>

(***************************************************************************)
(* Bounds.                                                                 *)
(***************************************************************************)
\* plies explored in one game (past the 75-move rule's 150 halfmoves)
MaxPly == 152
\* a capture or pawn move is offered only in the first ZeroPlies plies
ZeroPlies == 1
\* games played one after another on one GameManager, each SeqPly plies long
\* and without captures or pawn moves
MaxGames == 2
SeqPly == 1
\* _format_move_history on its own: moves on the board it is called with
MaxHistory == 3
\* the rate limiter on its own: get_move calls made, seconds followed, and
\* the largest requests_per_minute configured
MaxCalls == 4
MaxElapsed == 120
MaxRpm == 2
\* the MoveValidator on its own: rejections counted for one model_name
MaxCount == 4

WHITE == "W"
BLACK == "B"
None == "None"
Unbound == "unbound"
\* Python's True and False, and bool as a value of either
True == "True"
False == "False"
Bool(p) == IF p THEN True ELSE False

\* model_name of the players passed to play_*
Names == {"m1", "m2"}

(***************************************************************************)
(* chess.Board, as far as the program reads it.                            *)
(***************************************************************************)
\* chess.Board(): the standard starting position, White to move.  occurs is
\* the largest of 1, 3 and 5 that the occurrences of the position reach.
NewBoard ==
    [turn |-> WHITE, halfmove_clock |-> 0, occurs |-> 1, status |-> "play",
     insufficient |-> FALSE, move_stack |-> <<>>]

is_checkmate(b) == b.status = "checkmate"

is_stalemate(b) == b.status = "stalemate"

is_insufficient_material(b) == b.insufficient

\* halfmove_clock >= 100 and the side to move has a legal move
is_fifty_moves(b) == b.halfmove_clock >= 100 /\ b.status = "play"

is_seventyfive_moves(b) == b.halfmove_clock >= 150 /\ b.status = "play"

\* is_repetition(count=3): the current position has occurred 3 times
is_repetition(b) == b.occurs >= 3

is_fivefold_repetition(b) == b.occurs >= 5

\* board.is_game_over() with its default claim_draw=False: the fifty-move rule
\* and threefold repetition are claims, not automatic ends, and are left out
is_game_over(b) ==
    \/ is_checkmate(b)
    \/ is_insufficient_material(b)
    \/ is_stalemate(b)
    \/ is_seventyfive_moves(b)
    \/ is_fivefold_repetition(b)

NullMove == [san |-> "--"]

\* None where a chess.Move is expected
NoMove == [san |-> "None"]

IsZeroing(m) == m.san = "zeroing"

\* str(move): the UCI text of a move
Str(m) == [uci |-> m.san]

\* board.legal_moves: a quiet move and a capture-or-pawn move, by the SAN that
\* names them in this position; none in a mated or stalemated position
legal_moves(b) ==
    IF b.status = "play" THEN {[san |-> "quiet"], [san |-> "zeroing"]} ELSE {}

\* The positions board.push(m) can produce: the turn flips, the halfmove clock
\* is zeroed by a capture or pawn move and advanced by any other, and the move
\* goes on the move stack.  What the new position is (mate, stalemate, bare
\* material, a repetition) is the environment's choice: a position recurs for
\* the k-th time no sooner than 4(k-1) reversible plies, material runs out
\* only by a capture, and a mated side has mating material against it.
Pushed(b, m) ==
    LET clock == IF IsZeroing(m) THEN 0 ELSE b.halfmove_clock + 1
    IN  { nb \in [turn : {IF b.turn = WHITE THEN BLACK ELSE WHITE},
                  halfmove_clock : {clock},
                  occurs : {1, 3, 5},
                  status : {"play", "checkmate", "stalemate"},
                  insufficient : BOOLEAN,
                  move_stack : {Append(b.move_stack, m)}] :
            /\ 4 * (nb.occurs - 1) <= clock
            /\ nb.insufficient => IsZeroing(m)
            /\ nb.insufficient => nb.status # "checkmate" }

(***************************************************************************)
(* Move strings: the text and whether white space surrounds it.            *)
(***************************************************************************)
\* "quiet" and "zeroing" are the SAN of a legal move of the position, "illegal"
\* is well-formed SAN that names no legal move, "--" is the null move
Texts == {"quiet", "zeroing", "illegal", "--", "ERROR"}

Strings == [text : Texts, ws : BOOLEAN]

\* str.strip()
Strip(s) == [s EXCEPT !.ws = FALSE]

ERROR == [text |-> "ERROR", ws |-> FALSE]

(***************************************************************************)
(* MoveValidator                                                           *)
(***************************************************************************)
\* dict.get(model_name, 0)
Get(counts, model_name) ==
    IF model_name \in DOMAIN counts THEN counts[model_name] ELSE 0

\* counts[model_name] = value
Put(counts, model_name, value) ==
    [n \in DOMAIN counts \cup {model_name} |->
        IF n = model_name THEN value ELSE counts[n]]

\* mutant: a count left by an earlier game is kept (setdefault for assignment)
reset_counter_Keeps(counts, model_name) ==
    Put(counts, model_name, Get(counts, model_name))

reset_counter(counts, model_name) == Put(counts, model_name, 0)

\* mutant: the lookup leaves an entry behind (dict.setdefault for dict.get)
get_illegal_moves_count_Creates(counts, model_name) ==
    [value |-> Get(counts, model_name),
     counts |-> Put(counts, model_name, Get(counts, model_name))]

\* get_illegal_moves_count: the value returned and the counter mapping it leaves
get_illegal_moves_count(counts, model_name) ==
    [value |-> Get(counts, model_name), counts |-> counts]

\* board.parse_san(san): the move, or ValueError (ok = FALSE) for text that is
\* not SAN (white space included) or names no legal move; the null move parses
parse_san(b, san) ==
    IF san.ws THEN [ok |-> FALSE, move |-> NoMove]
    ELSE IF san.text = "--" THEN [ok |-> TRUE, move |-> NullMove]
    ELSE IF [san |-> san.text] \in legal_moves(b)
         THEN [ok |-> TRUE, move |-> [san |-> san.text]]
         ELSE [ok |-> FALSE, move |-> NoMove]

\* mutant: a legal move clears the agent's count
validate_move_Resets(counts, b, move_str, model_name) ==
    LET parsed == parse_san(b, Strip(move_str))
        bumped == Put(counts, model_name, Get(counts, model_name) + 1)
    IN  IF parsed.ok /\ parsed.move \in legal_moves(b)
        THEN [is_legal |-> TRUE, move |-> parsed.move,
              counts |-> Put(counts, model_name, 0)]
        ELSE [is_legal |-> FALSE, move |-> NoMove, counts |-> bumped]

\* mutant: text that does not parse is rejected without being counted
validate_move_ParseErrorFree(counts, b, move_str, model_name) ==
    LET parsed == parse_san(b, Strip(move_str))
        bumped == Put(counts, model_name, Get(counts, model_name) + 1)
    IN  IF parsed.ok
        THEN IF parsed.move \in legal_moves(b)
             THEN [is_legal |-> TRUE, move |-> parsed.move, counts |-> counts]
             ELSE [is_legal |-> FALSE, move |-> NoMove, counts |-> bumped]
        ELSE [is_legal |-> FALSE, move |-> NoMove, counts |-> counts]

\* mutant: a move that parses but is not legal is rejected without being counted
validate_move_NullFree(counts, b, move_str, model_name) ==
    LET parsed == parse_san(b, Strip(move_str))
        bumped == Put(counts, model_name, Get(counts, model_name) + 1)
    IN  IF parsed.ok
        THEN IF parsed.move \in legal_moves(b)
             THEN [is_legal |-> TRUE, move |-> parsed.move, counts |-> counts]
             ELSE [is_legal |-> FALSE, move |-> NoMove, counts |-> counts]
        ELSE [is_legal |-> FALSE, move |-> NoMove, counts |-> bumped]

\* mutant: the count is incremented before the legality check, for every call
validate_move_CountsLegal(counts, b, move_str, model_name) ==
    LET parsed == parse_san(b, Strip(move_str))
        bumped == Put(counts, model_name, Get(counts, model_name) + 1)
    IN  IF parsed.ok /\ parsed.move \in legal_moves(b)
        THEN [is_legal |-> TRUE, move |-> parsed.move, counts |-> bumped]
        ELSE [is_legal |-> FALSE, move |-> NoMove, counts |-> bumped]

\* mutant: a move that parses but is not legal is returned with the rejection
validate_move_ReturnsParsed(counts, b, move_str, model_name) ==
    LET parsed == parse_san(b, Strip(move_str))
        bumped == Put(counts, model_name, Get(counts, model_name) + 1)
    IN  IF parsed.ok
        THEN IF parsed.move \in legal_moves(b)
             THEN [is_legal |-> TRUE, move |-> parsed.move, counts |-> counts]
             ELSE [is_legal |-> FALSE, move |-> parsed.move, counts |-> bumped]
        ELSE [is_legal |-> FALSE, move |-> NoMove, counts |-> bumped]

\* mutant: every move that parses is accepted (no test against legal_moves)
validate_move_AcceptsParsed(counts, b, move_str, model_name) ==
    LET parsed == parse_san(b, Strip(move_str))
        bumped == Put(counts, model_name, Get(counts, model_name) + 1)
    IN  IF parsed.ok
        THEN [is_legal |-> TRUE, move |-> parsed.move, counts |-> counts]
        ELSE [is_legal |-> FALSE, move |-> NoMove, counts |-> bumped]

\* validate_move: (is_legal, move) and the counter mapping it leaves
validate_move(counts, b, move_str, model_name) ==
    LET parsed == parse_san(b, Strip(move_str))
        bumped == Put(counts, model_name, Get(counts, model_name) + 1)
    IN  IF parsed.ok
        THEN IF parsed.move \in legal_moves(b)
             THEN [is_legal |-> TRUE, move |-> parsed.move, counts |-> counts]
             ELSE [is_legal |-> FALSE, move |-> NoMove, counts |-> bumped]
        ELSE [is_legal |-> FALSE, move |-> NoMove, counts |-> bumped]

(***************************************************************************)
(* The move sources                                                        *)
(***************************************************************************)
\* the moves of the position a source is let to pick in this behaviour
Offered(b, c) ==
    {m \in legal_moves(b) : IsZeroing(m) => Len(b.move_stack) < c.zero}

\* LLMPlayer.get_move: the stripped content of the completion, or "ERROR" when
\* anything inside the try raises
LLMReplies(b, c) ==
    {Strip(s) : s \in {x \in Strings :
        x.text \in {"quiet", "zeroing"} => [san |-> x.text] \in Offered(b, c)}}
    \cup {ERROR}

\* ChessEngine.get_move: result.move, or None when anything raises
EngineReplies(b, c) == Offered(b, c) \cup {NoMove}

(***************************************************************************)
(* GameManager                                                             *)
(***************************************************************************)
\* what a get_move call that raised left in place of a reply
Raised == [text |-> "raise", ws |-> FALSE]

\* is_legal as validate_move returned it
Verdict(v) == IF v.is_legal THEN "legal" ELSE "illegal"

\* mutant: the forfeit comes one illegal proposal early
EngineGameForfeit_Early(illegal_count) == illegal_count >= 2

\* mutant: the limit of play_llm_vs_engine is compared with > in place of >=
EngineGameForfeit_Late(illegal_count) == illegal_count > 3

\* line 84: illegal_count >= 3
EngineGameForfeit(illegal_count) == illegal_count >= 3

\* mutant: the forfeit of an LLM-vs-LLM game comes one illegal proposal early
LLMGameForfeit_Early(illegal_count) == illegal_count >= 2

\* mutant: the limit is compared with > in place of >=
LLMGameForfeit_Late(illegal_count) == illegal_count > 3

\* line 166: get_illegal_moves_count(current_player.model_name) >= 3
LLMGameForfeit(illegal_count) == illegal_count >= 3

\* line 167: the result of a forfeit by the side to move
LLMForfeitResult(turn) ==
    IF turn = WHITE THEN "black_won_illegal_moves" ELSE "white_won_illegal_moves"

NoGame == [kind |-> "none"]

NoRecord == [kind |-> "none"]

NoRequest == [src |-> "none", reply |-> NoMove, verdict |-> "none"]

\* the sources whose proposals go through validate_move
LLMSources == {"llm", "white", "black"}

NoRejects == [src \in LLMSources |-> 0]

\* ResultsManager.__init__: no results, nothing written
NewResultsManager == [results |-> <<>>, saved |-> <<>>, nsaves |-> 0]

\* no LLMPlayer whose rate limiter is followed
NoPlayer ==
    [provider_config |-> [requests_per_minute |-> 0, retry_after |-> 0],
     last_request_time |-> 0, requests_this_minute |-> 0]

\* the locals of a play_* call that has not been made
NoCall ==
    [game |-> NoGame, game_record |-> NoRecord, is_llm_turn |-> Unbound,
     engine |-> "none", pc |-> "idle", nreq |-> 0, movers |-> <<>>,
     last |-> NoRequest, nstops |-> 0, rejects |-> NoRejects]

\* mutant: the record of a call left by an exception is appended all the same
AfterRaise_Reported(history, record) == Append(history, record)

\* lines 117-119 and 188-191 are not reached when the loop raised: game_history
\* after a play_* call that was left by an exception
AfterRaise(history, record) == history

\* ChessEngine.stop: quit the engine process if one was started
stop(e) == IF e = "none" THEN e ELSE "stopped"

\* mutant: engine.stop() follows the try block without a finally
Finally_OnReturnOnly(e, stops, raised) ==
    IF raised THEN [engine |-> e, nstops |-> stops]
    ELSE [engine |-> stop(e), nstops |-> stops + 1]

\* lines 114-115: the finally clause runs engine.stop() whether the try block
\* was left normally, by break, or by an exception
Finally(e, stops, raised) == [engine |-> stop(e), nstops |-> stops + 1]

\* the history variables at the start of a game
FreshHistory ==
    /\ nreq' = 0
    /\ movers' = <<>>
    /\ last' = NoRequest
    /\ ngames' = ngames + 1
    /\ nstops' = 0
    /\ rejects' = NoRejects

CanStart == pc \in {"idle", "done", "raised"} /\ ngames < cap.games

\* mutant: the board of the earlier game is kept
reset_game_Keeps(b) == b

\* reset_game: self.board = chess.Board()
reset_game(b) == NewBoard

\* play_llm_vs_engine, lines 45-59: reset, start the engine, create the record
StartVsEngine ==
    \E llm \in {"m1"}, llm_plays_white \in BOOLEAN :
        /\ CanStart
        /\ board' = reset_game(board)
        /\ illegal_moves_count' = reset_counter(illegal_moves_count, llm)
        /\ engine' = "started"
        /\ game' = [kind |-> "engine", llm |-> llm,
                    llm_plays_white |-> llm_plays_white]
        /\ game_record' = [kind |-> "engine", llm_model |-> llm,
                           llm_plays_white |-> llm_plays_white, moves |-> <<>>,
                           result |-> None, illegal_moves |-> 0]
        /\ is_llm_turn' = Unbound
        /\ pc' = "loop"
        /\ FreshHistory
        /\ UNCHANGED <<game_history, other, cap, mainVars, limiterVars>>

\* mutant: the move is pushed on the board and not appended to the record
Apply_Unrecorded(move, src) ==
    /\ board' \in Pushed(board, move)
    /\ game_record' = game_record
    /\ movers' = Append(movers, src)

\* lines 98-99: board.push(move) and the append to the record
Apply(move, src) ==
    /\ board' \in Pushed(board, move)
    /\ game_record' = [game_record EXCEPT !.moves = Append(@, Str(move))]
    /\ movers' = Append(movers, src)

\* mutant: the LLM is asked whenever White is to move
IsLLMTurn_WhiteOnly(turn, llm_plays_white) == Bool(turn = WHITE)

\* line 65: is_llm_turn = (self.board.turn == chess.WHITE) == llm_plays_white
IsLLMTurn(turn, llm_plays_white) == Bool((turn = WHITE) = llm_plays_white)

\* one pass of the loop of play_llm_vs_engine, lines 62-99
VsEngineStep ==
    /\ pc = "loop"
    /\ game.kind = "engine"
    /\ ~is_game_over(board)
    /\ Len(board.move_stack) < cap.ply
    /\ is_llm_turn' = IsLLMTurn(board.turn, game.llm_plays_white)
    /\ nreq' = nreq + 1
    /\ UNCHANGED <<game, ngames, other, cap, mainVars, limiterVars>>
    /\ IF is_llm_turn' = True
       THEN \/ \* get_move raises: the finally clause runs, the call raises
               /\ last' = [src |-> "llm", reply |-> Raised, verdict |-> "none"]
               /\ engine' = Finally(engine, nstops, TRUE).engine
               /\ nstops' = Finally(engine, nstops, TRUE).nstops
               /\ pc' = "raised"
               /\ UNCHANGED <<board, illegal_moves_count, game_record, movers,
                              rejects>>
            \/ \E move_str \in LLMReplies(board, cap) :
                 LET v == validate_move(illegal_moves_count, board, move_str,
                                        game.llm)
                     counted == get_illegal_moves_count(v.counts, game.llm)
                     illegal_count == counted.value
                 IN  /\ last' = [src |-> "llm", reply |-> move_str,
                                 verdict |-> Verdict(v)]
                     /\ UNCHANGED <<engine, nstops>>
                     /\ IF ~v.is_legal
                        THEN /\ illegal_moves_count' = counted.counts
                             /\ rejects' = [rejects EXCEPT !["llm"] = @ + 1]
                             /\ UNCHANGED <<board, movers>>
                             /\ IF EngineGameForfeit(illegal_count)
                                THEN /\ game_record' =
                                          [game_record EXCEPT !.result =
                                              "engine_won_illegal_moves"]
                                     /\ pc' = "post"
                                ELSE UNCHANGED <<game_record, pc>>
                        ELSE /\ illegal_moves_count' = v.counts
                             /\ Apply(v.move, "llm")
                             /\ UNCHANGED <<pc, rejects>>
       ELSE \E move \in EngineReplies(board, cap) :
                 /\ last' = [src |-> "engine", reply |-> move, verdict |-> "none"]
                 /\ UNCHANGED <<illegal_moves_count, engine, nstops, rejects>>
                 /\ IF move = NoMove
                    THEN /\ game_record' =
                              [game_record EXCEPT !.result = "error_engine_move"]
                         /\ pc' = "post"
                         /\ UNCHANGED <<board, movers>>
                    ELSE /\ Apply(move, "engine")
                         /\ pc' = pc
    /\ game_history' = IF pc' = "raised"
                       THEN AfterRaise(game_history, game_record)
                       ELSE game_history

\* mutant: the stalemate branch is missing
EngineFinalResult_NoStalemate(b, llm_turn) ==
    IF is_checkmate(b) THEN (IF llm_turn = True THEN "llm_won" ELSE "engine_won")
    ELSE IF is_insufficient_material(b) THEN "draw_insufficient_material"
    ELSE IF is_fifty_moves(b) THEN "draw_fifty_moves"
    ELSE IF is_repetition(b) THEN "draw_repetition"
    ELSE None

\* mutant: the winner of a checkmate is taken from the side to move
EngineFinalResult_Swapped(b, llm_turn) ==
    IF is_checkmate(b) THEN (IF llm_turn = True THEN "engine_won" ELSE "llm_won")
    ELSE IF is_stalemate(b) THEN "draw_stalemate"
    ELSE IF is_insufficient_material(b) THEN "draw_insufficient_material"
    ELSE IF is_fifty_moves(b) THEN "draw_fifty_moves"
    ELSE IF is_repetition(b) THEN "draw_repetition"
    ELSE None

\* lines 102-112: the result of a game whose loop ended on the position
EngineFinalResult(b, llm_turn) ==
    IF is_checkmate(b) THEN (IF llm_turn = True THEN "llm_won" ELSE "engine_won")
    ELSE IF is_stalemate(b) THEN "draw_stalemate"
    ELSE IF is_insufficient_material(b) THEN "draw_insufficient_material"
    ELSE IF is_fifty_moves(b) THEN "draw_fifty_moves"
    ELSE IF is_repetition(b) THEN "draw_repetition"
    ELSE None

\* mutant: the evaluation after the loop assigns the result in every case
Seal_Always(record, final) == [record EXCEPT !.result = final]

\* lines 102 and 176: if not game_record["result"], the result is the one the
\* position gives; a result set in the loop stays
Seal(record, final) ==
    IF record.result = None THEN [record EXCEPT !.result = final] ELSE record

\* the loop of play_llm_vs_engine has ended: lines 101-119
FinishVsEngine ==
    /\ game.kind = "engine"
    /\ pc = "post" \/ (pc = "loop" /\ is_game_over(board))
    /\ LET sealed == Seal(game_record, EngineFinalResult(board, is_llm_turn))
           counted == get_illegal_moves_count(illegal_moves_count, game.llm)
           final == [sealed EXCEPT !.illegal_moves = counted.value]
       IN  /\ game_record' = final
           /\ game_history' = Append(game_history, final)
           /\ illegal_moves_count' = counted.counts
    /\ engine' = Finally(engine, nstops, FALSE).engine
    /\ nstops' = Finally(engine, nstops, FALSE).nstops
    /\ pc' = "done"
    /\ UNCHANGED <<board, game, is_llm_turn, nreq, movers, last, ngames,
                   rejects, other, cap, mainVars, limiterVars>>

\* play_llm_vs_llm, lines 136-148: reset and create the record
StartVsLLM ==
    \E white \in {"m1"}, black \in Names :
        /\ CanStart
        /\ board' = reset_game(board)
        /\ illegal_moves_count' =
              reset_counter(reset_counter(illegal_moves_count, white), black)
        /\ engine' = "none"
        /\ game' = [kind |-> "llm", white |-> white, black |-> black]
        /\ game_record' = [kind |-> "llm", white_model |-> white,
                           black_model |-> black, moves |-> <<>>,
                           result |-> None, white_illegal_moves |-> 0,
                           black_illegal_moves |-> 0]
        /\ is_llm_turn' = Unbound
        /\ pc' = "loop"
        /\ FreshHistory
        /\ UNCHANGED <<game_history, other, cap, mainVars, limiterVars>>

\* one pass of the loop of play_llm_vs_llm, lines 150-173
VsLLMStep ==
    /\ pc = "loop"
    /\ game.kind = "llm"
    /\ ~is_game_over(board)
    /\ Len(board.move_stack) < cap.ply
    /\ nreq' = nreq + 1
    /\ UNCHANGED <<game, is_llm_turn, engine, ngames, nstops, other, cap,
                   mainVars, limiterVars>>
    /\ LET current_player == IF board.turn = WHITE THEN "white" ELSE "black"
           model_name == IF board.turn = WHITE THEN game.white ELSE game.black
       IN  \/ \* get_move raises
              /\ last' = [src |-> current_player, reply |-> Raised,
                          verdict |-> "none"]
              /\ pc' = "raised"
              /\ UNCHANGED <<board, illegal_moves_count, game_record, movers,
                             rejects>>
           \/ \E move_str \in LLMReplies(board, cap) :
                LET v == validate_move(illegal_moves_count, board, move_str,
                                       model_name)
                    counted == get_illegal_moves_count(v.counts, model_name)
                IN  /\ last' = [src |-> current_player, reply |-> move_str,
                                verdict |-> Verdict(v)]
                    /\ IF ~v.is_legal
                       THEN /\ illegal_moves_count' = counted.counts
                            /\ rejects' =
                                  [rejects EXCEPT ![current_player] = @ + 1]
                            /\ UNCHANGED <<board, movers>>
                            /\ IF LLMGameForfeit(counted.value)
                               THEN /\ game_record' =
                                         [game_record EXCEPT !.result =
                                             LLMForfeitResult(board.turn)]
                                    /\ pc' = "post"
                               ELSE UNCHANGED <<game_record, pc>>
                       ELSE /\ illegal_moves_count' = v.counts
                            /\ Apply(v.move, current_player)
                            /\ UNCHANGED <<pc, rejects>>
    /\ game_history' = IF pc' = "raised"
                       THEN AfterRaise(game_history, game_record)
                       ELSE game_history

\* mutant: repetition is tested before the fifty-move rule
LLMFinalResult_RepetitionFirst(b) ==
    IF is_checkmate(b)
    THEN (IF b.turn = WHITE THEN "black_won" ELSE "white_won")
    ELSE IF is_stalemate(b) THEN "draw_stalemate"
    ELSE IF is_insufficient_material(b) THEN "draw_insufficient_material"
    ELSE IF is_repetition(b) THEN "draw_repetition"
    ELSE IF is_fifty_moves(b) THEN "draw_fifty_moves"
    ELSE None

\* lines 176-186: the result of a game whose loop ended on the position
LLMFinalResult(b) ==
    IF is_checkmate(b)
    THEN (IF b.turn = WHITE THEN "black_won" ELSE "white_won")
    ELSE IF is_stalemate(b) THEN "draw_stalemate"
    ELSE IF is_insufficient_material(b) THEN "draw_insufficient_material"
    ELSE IF is_fifty_moves(b) THEN "draw_fifty_moves"
    ELSE IF is_repetition(b) THEN "draw_repetition"
    ELSE None

\* the loop of play_llm_vs_llm has ended: lines 175-191
FinishVsLLM ==
    /\ game.kind = "llm"
    /\ pc = "post" \/ (pc = "loop" /\ is_game_over(board))
    /\ LET sealed == Seal(game_record, LLMFinalResult(board))
           white == get_illegal_moves_count(illegal_moves_count, game.white)
           black == get_illegal_moves_count(white.counts, game.black)
           final == [sealed EXCEPT !.white_illegal_moves = white.value,
                                   !.black_illegal_moves = black.value]
       IN  /\ game_record' = final
           /\ game_history' = Append(game_history, final)
           /\ illegal_moves_count' = black.counts
    /\ pc' = "done"
    /\ UNCHANGED <<board, game, is_llm_turn, engine, nreq, movers, last,
                   ngames, nstops, rejects, other, cap, mainVars, limiterVars>>

(***************************************************************************)
(* The first game played on a new GameManager.                             *)
(***************************************************************************)
Init ==
    /\ board = NewBoard
    /\ illegal_moves_count = << >>
    /\ game_history = <<>>
    /\ game = NoGame
    /\ game_record = NoRecord
    /\ is_llm_turn = Unbound
    /\ engine = "none"
    /\ pc = "idle"
    /\ nreq = 0
    /\ movers = <<>>
    /\ last = NoRequest
    /\ ngames = 0
    /\ nstops = 0
    /\ rejects = NoRejects
    /\ other = NoCall
    /\ results_manager = NewResultsManager
    /\ mpc = "none"
    /\ llm_player = NoPlayer
    /\ now = 0
    /\ issued = <<>>
    /\ cap = [ply |-> MaxPly, zero |-> ZeroPlies, games |-> 1]

Next ==
    \/ StartVsEngine
    \/ VsEngineStep
    \/ FinishVsEngine
    \/ StartVsLLM
    \/ VsLLMStep
    \/ FinishVsLLM

Spec == Init /\ [][Next]_vars

\* one game without captures or pawn moves: it runs into the 75-move rule or
\* a fivefold repetition unless it ends before
InitLive ==
    /\ board = NewBoard
    /\ illegal_moves_count = << >>
    /\ game_history = <<>>
    /\ game = NoGame
    /\ game_record = NoRecord
    /\ is_llm_turn = Unbound
    /\ engine = "none"
    /\ pc = "idle"
    /\ nreq = 0
    /\ movers = <<>>
    /\ last = NoRequest
    /\ ngames = 0
    /\ nstops = 0
    /\ rejects = NoRejects
    /\ other = NoCall
    /\ results_manager = NewResultsManager
    /\ mpc = "none"
    /\ llm_player = NoPlayer
    /\ now = 0
    /\ issued = <<>>
    /\ cap = [ply |-> MaxPly, zero |-> 0, games |-> 1]

\* the program keeps running: a play_* call that was made goes on, pass after
\* pass of its loop and then the statements after it, as long as the source
\* calls return
SpecLive == InitLive /\ [][Next]_vars /\ WF_vars(Next)

(***************************************************************************)
(* Games played one after another on the same GameManager, as main() does. *)
(***************************************************************************)
InitSeq ==
    /\ board = NewBoard
    /\ illegal_moves_count = << >>
    /\ game_history = <<>>
    /\ game = NoGame
    /\ game_record = NoRecord
    /\ is_llm_turn = Unbound
    /\ engine = "none"
    /\ pc = "idle"
    /\ nreq = 0
    /\ movers = <<>>
    /\ last = NoRequest
    /\ ngames = 0
    /\ nstops = 0
    /\ rejects = NoRejects
    /\ other = NoCall
    /\ results_manager = NewResultsManager
    /\ mpc = "none"
    /\ llm_player = NoPlayer
    /\ now = 0
    /\ issued = <<>>
    /\ cap = [ply |-> SeqPly, zero |-> 0, games |-> MaxGames]

SpecSeq == InitSeq /\ [][Next]_vars

(***************************************************************************)
(* Two play_* calls in progress on the same GameManager, one running at a  *)
(* time: two threads that each run one of the coroutines.  A call is       *)
(* switched out between passes of its loop, where it waits for its source. *)
(***************************************************************************)
\* the running call is suspended and the other call goes on (or is made): the
\* locals change hands, the fields of the GameManager stay as they are
Switch ==
    /\ pc # "validator"
    /\ other' = [game |-> game, game_record |-> game_record,
                 is_llm_turn |-> is_llm_turn, engine |-> engine, pc |-> pc,
                 nreq |-> nreq, movers |-> movers, last |-> last,
                 nstops |-> nstops, rejects |-> rejects]
    /\ game' = other.game
    /\ game_record' = other.game_record
    /\ is_llm_turn' = other.is_llm_turn
    /\ engine' = other.engine
    /\ pc' = other.pc
    /\ nreq' = other.nreq
    /\ movers' = other.movers
    /\ last' = other.last
    /\ nstops' = other.nstops
    /\ rejects' = other.rejects
    /\ UNCHANGED <<board, illegal_moves_count, game_history, ngames, cap,
                   mainVars, limiterVars>>

NextTwo ==
    \/ Next
    \/ Switch

SpecTwo == InitSeq /\ [][NextTwo]_vars

(***************************************************************************)
(* main(): the LLM-vs-engine games, analyze_results and save_results, then *)
(* the LLM-vs-LLM games, all on one GameManager and one ResultsManager.    *)
(***************************************************************************)
\* ResultsManager.add_game_result
add_game_result(rm, result) == [rm EXCEPT !.results = Append(@, result)]

\* ResultsManager.save_results: the results as they are now go to a new file
save_results(rm) == [rm EXCEPT !.saved = rm.results, !.nsaves = @ + 1]

\* main, lines 164-168: a game of the LLM-vs-engine loops
MainPlayEngine ==
    /\ mpc = "engine_games"
    /\ pc = "idle"
    /\ StartVsEngine

\* main, line 197: a game of the LLM-vs-LLM loops
MainPlayLLM ==
    /\ mpc = "llm_games"
    /\ pc = "idle"
    /\ StartVsLLM

\* main, lines 169 and 198: the record the call returned is added
MainAdd ==
    /\ mpc \in {"engine_games", "llm_games"}
    /\ pc = "done"
    /\ results_manager' = add_game_result(results_manager, game_record)
    /\ pc' = "idle"
    /\ UNCHANGED <<board, illegal_moves_count, game_history, game, game_record,
                   is_llm_turn, engine, nreq, movers, last, ngames, nstops,
                   rejects, other, cap, mpc, limiterVars>>

\* main, lines 171-173 and 205-207: a ValueError that left the call is caught
\* and the loops go on with the next model
MainSkip ==
    /\ mpc \in {"engine_games", "llm_games"}
    /\ pc = "raised"
    /\ pc' = "idle"
    /\ UNCHANGED <<board, illegal_moves_count, game_history, game, game_record,
                   is_llm_turn, engine, nreq, movers, last, ngames, nstops,
                   rejects, other, cap, mainVars, limiterVars>>

\* any other exception that left the call leaves main as well
MainCrash ==
    /\ mpc \in {"engine_games", "llm_games"}
    /\ pc = "raised"
    /\ mpc' = "crashed"
    /\ UNCHANGED <<board, illegal_moves_count, game_history, game, game_record,
                   is_llm_turn, engine, pc, nreq, movers, last, ngames, nstops,
                   rejects, other, cap, results_manager, limiterVars>>

\* main, lines 175-177: after the LLM-vs-engine loops, analyze_results and
\* save_results
MainSave ==
    /\ mpc = "engine_games"
    /\ pc = "idle"
    /\ results_manager' = save_results(results_manager)
    /\ mpc' = "llm_games"
    /\ UNCHANGED <<board, illegal_moves_count, game_history, game, game_record,
                   is_llm_turn, engine, pc, nreq, movers, last, ngames, nstops,
                   rejects, other, cap, limiterVars>>

\* main, line 207: the LLM-vs-LLM loops are done and main returns
MainReturn ==
    /\ mpc = "llm_games"
    /\ pc = "idle"
    /\ mpc' = "finished"
    /\ UNCHANGED <<board, illegal_moves_count, game_history, game, game_record,
                   is_llm_turn, engine, pc, nreq, movers, last, ngames, nstops,
                   rejects, other, cap, results_manager, limiterVars>>

InitMain ==
    /\ board = NewBoard
    /\ illegal_moves_count = << >>
    /\ game_history = <<>>
    /\ game = NoGame
    /\ game_record = NoRecord
    /\ is_llm_turn = Unbound
    /\ engine = "none"
    /\ pc = "idle"
    /\ nreq = 0
    /\ movers = <<>>
    /\ last = NoRequest
    /\ ngames = 0
    /\ nstops = 0
    /\ rejects = NoRejects
    /\ other = NoCall
    /\ results_manager = NewResultsManager
    /\ mpc = "engine_games"
    /\ llm_player = NoPlayer
    /\ now = 0
    /\ issued = <<>>
    /\ cap = [ply |-> SeqPly, zero |-> 0, games |-> MaxGames]

NextMain ==
    \/ MainPlayEngine
    \/ VsEngineStep
    \/ FinishVsEngine
    \/ MainPlayLLM
    \/ VsLLMStep
    \/ FinishVsLLM
    \/ MainAdd
    \/ MainSkip
    \/ MainCrash
    \/ MainSave
    \/ MainReturn

SpecMain == InitMain /\ [][NextMain]_vars

(***************************************************************************)
(* _format_move_history called on a board with moves on its stack.         *)
(***************************************************************************)
\* f"{i//2 + 1}. {san_move}" for an even i, san_move alone for an odd one:
\* number is 0 where the text has no move number
Entry(i, san_move) ==
    [number |-> IF i % 2 = 0 THEN (i \div 2) + 1 ELSE 0, san |-> san_move]

\* the loop of lines 198-208 from index i on; fails are the indices at which
\* temp_board.san(move) raises, which skips the move
RECURSIVE FormatFrom(_, _, _, _)
FormatFrom(stack, i, fails, moves) ==
    IF i >= Len(stack) THEN moves
    ELSE IF i \in fails THEN FormatFrom(stack, i + 1, fails, moves)
    ELSE FormatFrom(stack, i + 1, fails,
                    Append(moves, Entry(i, stack[i + 1].san)))

\* mutant: a move is numbered by its place in the transcript, not by its index
RECURSIVE FormatFrom_ByPlace(_, _, _, _)
FormatFrom_ByPlace(stack, i, fails, moves) ==
    IF i >= Len(stack) THEN moves
    ELSE IF i \in fails THEN FormatFrom_ByPlace(stack, i + 1, fails, moves)
    ELSE FormatFrom_ByPlace(stack, i + 1, fails,
                            Append(moves, Entry(Len(moves), stack[i + 1].san)))

\* mutant of _format_move_history built on it
format_move_history_ByPlace(b, fails) ==
    [moves |-> FormatFrom_ByPlace(b.move_stack, 0, fails, <<>>), board |-> b]

\* _format_move_history: the entries that " ".join puts together, and
\* self.board as the call leaves it (the moves are replayed on temp_board)
format_move_history(b, fails) ==
    [moves |-> FormatFrom(b.move_stack, 0, fails, <<>>), board |-> b]

\* the boards that n plies from the starting position lead to
RECURSIVE BoardsWithin(_)
BoardsWithin(n) ==
    IF n = 0 THEN {NewBoard}
    ELSE LET before == BoardsWithin(n - 1)
         IN  before \cup
             UNION {UNION {Pushed(b, m) : m \in legal_moves(b)} : b \in before}

\* a call of _format_move_history(), as the loops make it before get_move
FormatHistory ==
    \E fails \in SUBSET (0..(Len(board.move_stack) - 1)) :
        LET formatted == format_move_history(board, fails)
        IN  /\ pc = "format"
            /\ board' = formatted.board
            /\ last' = [src |-> "_format_move_history", reply |-> NoMove,
                        verdict |-> "none", fails |-> fails,
                        moves |-> formatted.moves]
            /\ UNCHANGED <<illegal_moves_count, game_history, game, game_record,
                           is_llm_turn, engine, pc, nreq, movers, ngames, nstops,
                           rejects, other, cap, mainVars, limiterVars>>

InitFormat ==
    /\ board \in BoardsWithin(MaxHistory)
    /\ illegal_moves_count = << >>
    /\ game_history = <<>>
    /\ game = NoGame
    /\ game_record = NoRecord
    /\ is_llm_turn = Unbound
    /\ engine = "none"
    /\ pc = "format"
    /\ nreq = 0
    /\ movers = <<>>
    /\ last = NoRequest
    /\ ngames = 0
    /\ nstops = 0
    /\ rejects = NoRejects
    /\ other = NoCall
    /\ results_manager = NewResultsManager
    /\ mpc = "none"
    /\ llm_player = NoPlayer
    /\ now = 0
    /\ issued = <<>>
    /\ cap = [ply |-> 0, zero |-> 0, games |-> 0]

NextFormat == FormatHistory

SpecFormat == InitFormat /\ [][NextFormat]_vars

(***************************************************************************)
(* An LLMPlayer's rate limiter: get_move calls as time passes.  Times are  *)
(* whole seconds; a completion request goes out at the time                *)
(* _handle_rate_limit returns.                                             *)
(***************************************************************************)
\* lines 70 and 75-76: the length of the window in seconds
Window == 60

\* _handle_rate_limit called at time t: the player's fields as it leaves them
\* and the time at which it returns (after time.sleep, if it slept)
handle_rate_limit(p, t) ==
    LET rate_limit == p.provider_config
        fresh == IF t - p.last_request_time >= Window
                 THEN [p EXCEPT !.requests_this_minute = 0,
                                !.last_request_time = t]
                 ELSE p
        full == fresh.requests_this_minute >= rate_limit.requests_per_minute
        waited == IF full
                  THEN [fresh EXCEPT !.requests_this_minute = 0]
                  ELSE fresh
    IN  [player |-> [waited EXCEPT !.requests_this_minute = @ + 1],
         time |-> IF full THEN t + rate_limit.retry_after ELSE t]

\* LLMPlayer.get_move, line 87 and the completion request that follows
GetMove ==
    LET handled == handle_rate_limit(llm_player, now)
    IN  /\ pc = "limiter"
        /\ Len(issued) < MaxCalls
        /\ handled.time <= Window + MaxElapsed
        /\ llm_player' = handled.player
        /\ now' = handled.time
        /\ issued' = Append(issued, handled.time)
        /\ UNCHANGED <<board, illegal_moves_count, game_history, game,
                       game_record, is_llm_turn, engine, pc, nreq, movers, last,
                       ngames, nstops, rejects, other, cap, mainVars>>

\* time passes between two get_move calls
Tick ==
    \E seconds \in {Window - 1, Window} :
        /\ pc = "limiter"
        /\ now + seconds <= Window + MaxElapsed
        /\ now' = now + seconds
        /\ UNCHANGED <<board, illegal_moves_count, game_history, game,
                       game_record, is_llm_turn, engine, pc, nreq, movers, last,
                       ngames, nstops, rejects, other, cap, mainVars,
                       llm_player, issued>>

\* LLMPlayer.__init__ with a rate_limit in its provider_config; time.time() is
\* more than a window past last_request_time = 0
InitLimiter ==
    /\ board = NewBoard
    /\ illegal_moves_count = << >>
    /\ game_history = <<>>
    /\ game = NoGame
    /\ game_record = NoRecord
    /\ is_llm_turn = Unbound
    /\ engine = "none"
    /\ pc = "limiter"
    /\ nreq = 0
    /\ movers = <<>>
    /\ last = NoRequest
    /\ ngames = 0
    /\ nstops = 0
    /\ rejects = NoRejects
    /\ other = NoCall
    /\ results_manager = NewResultsManager
    /\ mpc = "none"
    /\ llm_player \in
          [provider_config : [requests_per_minute : 1..MaxRpm,
                              retry_after : {1, Window}],
           last_request_time : {0}, requests_this_minute : {0}]
    /\ now = Window
    /\ issued = <<>>
    /\ cap = [ply |-> 0, zero |-> 0, games |-> 0]

NextLimiter ==
    \/ GetMove
    \/ Tick

SpecLimiter == InitLimiter /\ [][NextLimiter]_vars

(***************************************************************************)
(* A MoveValidator called directly, in any order, on a position.           *)
(***************************************************************************)
\* the positions the validator is called on: the start position and the
\* positions one move later (in play, mated or stalemated)
ValidatorBoards == {NewBoard} \cup Pushed(NewBoard, [san |-> "quiet"])

\* a call of reset_counter(model_name)
VReset ==
    \E model_name \in Names :
        /\ pc = "validator"
        /\ illegal_moves_count' = reset_counter(illegal_moves_count, model_name)
        /\ last' = [src |-> "reset_counter", reply |-> NoMove,
                    verdict |-> "none", model_name |-> model_name]
        /\ UNCHANGED <<board, game_history, game, game_record, is_llm_turn,
                       engine, pc, nreq, movers, ngames, nstops, rejects,
                       other, cap, mainVars, limiterVars>>

\* a call of validate_move(board, move_str, model_name)
VValidate ==
    \E model_name \in Names, move_str \in Strings :
        LET v == validate_move(illegal_moves_count, board, move_str, model_name)
        IN  /\ pc = "validator"
            /\ Get(illegal_moves_count, model_name) < MaxCount
            /\ illegal_moves_count' = v.counts
            /\ last' = [src |-> "validate_move", reply |-> move_str,
                        verdict |-> Verdict(v), model_name |-> model_name,
                        move |-> v.move]
            /\ UNCHANGED <<board, game_history, game, game_record, is_llm_turn,
                           engine, pc, nreq, movers, ngames, nstops, rejects,
                           other, cap, mainVars, limiterVars>>

\* a call of get_illegal_moves_count(model_name)
VGet ==
    \E model_name \in Names :
        LET counted == get_illegal_moves_count(illegal_moves_count, model_name)
        IN  /\ pc = "validator"
            /\ illegal_moves_count' = counted.counts
            /\ last' = [src |-> "get_illegal_moves_count", reply |-> NoMove,
                        verdict |-> "none", model_name |-> model_name,
                        value |-> counted.value]
            /\ UNCHANGED <<board, game_history, game, game_record, is_llm_turn,
                           engine, pc, nreq, movers, ngames, nstops, rejects,
                           other, cap, mainVars, limiterVars>>

InitValidator ==
    /\ board \in ValidatorBoards
    /\ illegal_moves_count = << >>
    /\ game_history = <<>>
    /\ game = NoGame
    /\ game_record = NoRecord
    /\ is_llm_turn = Unbound
    /\ engine = "none"
    /\ pc = "validator"
    /\ nreq = 0
    /\ movers = <<>>
    /\ last = NoRequest
    /\ ngames = 0
    /\ nstops = 0
    /\ rejects = NoRejects
    /\ other = NoCall
    /\ results_manager = NewResultsManager
    /\ mpc = "none"
    /\ llm_player = NoPlayer
    /\ now = 0
    /\ issued = <<>>
    /\ cap = [ply |-> 0, zero |-> 0, games |-> 0]

NextValidator ==
    \/ VReset
    \/ VValidate
    \/ VGet

SpecValidator == InitValidator /\ [][NextValidator]_vars

(***************************************************************************)
(* Properties                                                              *)
(***************************************************************************)
Forfeits ==
    {"engine_won_illegal_moves", "black_won_illegal_moves",
     "white_won_illegal_moves"}

Results ==
    Forfeits \cup
    {"llm_won", "engine_won", "white_won", "black_won", "draw_stalemate",
     "draw_insufficient_material", "draw_fifty_moves", "draw_repetition",
     "error_engine_move"}

InGame == pc \in {"loop", "post"}

\* the agent whose proposal is asked for in the current position
Proposer ==
    IF game.kind = "engine" THEN game.llm
    ELSE IF board.turn = WHITE THEN game.white ELSE game.black

\* the agents playing the game
Players ==
    IF game.kind = "engine" THEN {game.llm}
    ELSE IF game.kind = "llm" THEN {game.white, game.black} ELSE {}

Count(n) == Get(illegal_moves_count, n)

\* a step in which a source was asked and validate_move rejected its proposal
RejectedStep == nreq' = nreq + 1 /\ last'.verdict = "illegal"

\* a step in which a source was asked and validate_move accepted its proposal
AcceptedStep == nreq' = nreq + 1 /\ last'.verdict = "legal"

\* the forfeiture result against the side to move
ForfeitAgainstMover ==
    IF game.kind = "engine" THEN "engine_won_illegal_moves"
    ELSE IF board.turn = WHITE THEN "black_won_illegal_moves"
    ELSE "white_won_illegal_moves"

\* C1: in both play_llm_vs_engine and play_llm_vs_llm, a rejection that brings
\* the proposer's count to 3 or more ends the game at once with the forfeiture
\* result against the side to move: the loop is left, and from then on no
\* proposal is requested and no move is applied before the call returns.
C1_ForfeitEndsGame ==
    [][ /\ (RejectedStep /\ Get(illegal_moves_count', Proposer) >= 3) =>
              /\ pc' = "post"
              /\ game_record'.result = ForfeitAgainstMover
        /\ (pc = "post" /\ game_record.result \in Forfeits) =>
              /\ nreq' = nreq
              /\ board' = board
              /\ game_record'.moves = game_record.moves
              /\ game_record'.result = game_record.result
              /\ pc' = "done" ]_vars

\* Black forfeited an LLM-vs-LLM game after moves had been played
C1_Witness ==
    /\ pc = "done"
    /\ game_record.result = "white_won_illegal_moves"
    /\ Len(game_record.moves) > 0
    /\ nreq = Len(game_record.moves) + 3

\* C2: a game whose result is a forfeiture by illegal moves reports a count of
\* exactly 3 for the forfeiting agent, and the proposal that triggers the
\* forfeiture changes neither the position nor the moves list.
C2_ForfeitCountIsThree ==
    /\ [](pc = "done" /\ game_record.result \in Forfeits =>
            CASE game_record.result = "engine_won_illegal_moves" ->
                    game_record.illegal_moves = 3
              [] game_record.result = "black_won_illegal_moves" ->
                    game_record.white_illegal_moves = 3
              [] game_record.result = "white_won_illegal_moves" ->
                    game_record.black_illegal_moves = 3)
    /\ [][ (InGame /\ game_record.result = None
            /\ game_record'.result \in Forfeits) =>
              /\ board' = board
              /\ game_record'.moves = game_record.moves ]_vars

\* three illegal proposals by White from the start position: a forfeit record
\* with no move
C2_Witness ==
    /\ pc = "done"
    /\ game_record.result = "black_won_illegal_moves"
    /\ game_record.moves = <<>>
    /\ game_record.white_illegal_moves = 3
    /\ board = NewBoard
    /\ nreq = 3

\* the forfeiture result that names agent n as the loser of the game, if any
ForfeitedBy(n) ==
    \/ game.kind = "engine" /\ n = game.llm
       /\ game_record.result = "engine_won_illegal_moves"
    \/ game.kind = "llm" /\ n = game.white
       /\ game_record.result = "black_won_illegal_moves"
    \/ game.kind = "llm" /\ n = game.black
       /\ game_record.result = "white_won_illegal_moves"

\* C3: within a game no agent's count is ever decremented or reset (after the
\* reset at the start of the game), and at the end of the game no player's
\* count exceeds 3, nor reaches 3 unless the result is that agent's forfeiture.
C3_CountMonotone ==
    /\ [][ InGame =>
             \A n \in DOMAIN illegal_moves_count :
                /\ n \in DOMAIN illegal_moves_count'
                /\ illegal_moves_count'[n] >= illegal_moves_count[n] ]_vars
    /\ [](pc = "done" =>
            \A n \in Players :
                /\ Count(n) <= 3
                /\ Count(n) >= 3 => ForfeitedBy(n))

\* a game in which a legal move followed an illegal proposal of the same agent
\* and that ended otherwise than by forfeiture, with the count kept
C3_Witness ==
    /\ pc = "done"
    /\ game.kind = "llm"
    /\ Count(game.white) = 2
    /\ Len(game_record.moves) >= 3
    /\ game_record.result \notin Forfeits

\* C4 as amended: when ChessEngine.get_move returns None the result is
\* error_engine_move, the game ends with no move applied and no count is
\* incremented; when LLMPlayer.get_move returns "ERROR" the proposal is rejected
\* like any illegal move: the proposer's count goes up by 1 and the game goes
\* on, or ends as that side's forfeiture when the count reaches 3.
C4_SourceFailure ==
    [][ nreq' = nreq + 1 =>
          /\ (last'.src = "engine" /\ last'.reply = NoMove) =>
                /\ illegal_moves_count' = illegal_moves_count
                /\ game_record'.result = "error_engine_move"
                /\ pc' = "post"
                /\ board' = board
          /\ (last'.src \in LLMSources /\ last'.reply = ERROR) =>
                /\ Get(illegal_moves_count', Proposer) = Count(Proposer) + 1
                /\ board' = board
                /\ IF Count(Proposer) + 1 >= 3
                   THEN game_record'.result = ForfeitAgainstMover /\ pc' = "post"
                   ELSE game_record'.result = None /\ pc' = "loop" ]_vars

\* an LLM that answered "ERROR" after moves were played has one strike and is
\* asked again
C4_Witness ==
    /\ pc = "loop"
    /\ last.src = "llm"
    /\ last.reply = ERROR
    /\ Count(game.llm) = 1
    /\ Len(game_record.moves) > 0
    /\ game_record.result = None

\* C4 as stated: a source that returns its failure sentinel ("ERROR" from
\* LLMPlayer.get_move, None from ChessEngine.get_move) gives the game the
\* source-failure result and increments no count.
C4_Original ==
    [][ (/\ nreq' = nreq + 1
         /\ \/ last'.src = "engine" /\ last'.reply = NoMove
            \/ last'.src \in LLMSources /\ last'.reply = ERROR) =>
          /\ illegal_moves_count' = illegal_moves_count
          /\ game_record'.result = "error_engine_move" ]_vars

\* a terminal condition of the specification's list holds on the position
Terminal(b) ==
    \/ is_checkmate(b)
    \/ is_stalemate(b)
    \/ is_insufficient_material(b)
    \/ is_fifty_moves(b)
    \/ is_repetition(b)

\* C5: once the position reached by an accepted move satisfies a terminal
\* condition (checkmate, stalemate, insufficient material, fifty-move rule,
\* threefold repetition) no further proposal is requested and no further move
\* is applied.
C5_StopsOnTerminal ==
    [][ (pc = "loop" /\ Len(board.move_stack) > 0 /\ Terminal(board)) =>
          /\ nreq' = nreq
          /\ board' = board ]_vars

\* C6: the record a play_* call returns has a result that is one of the
\* enumerated values, and a result once set during the game is never assigned
\* again (the evaluation after the loop does not replace a forfeit or an
\* engine-failure result).
C6_Sealed ==
    /\ [](pc = "done" =>
            /\ game_record.result \in Results
            /\ game_history[Len(game_history)] = game_record)
    /\ [][ (InGame /\ game_record.result # None) =>
              game_record'.result = game_record.result ]_vars

\* a forfeit on a position on which a draw condition holds as well is returned
\* as the forfeit
C6_Witness ==
    /\ pc = "done"
    /\ game_record.result \in Forfeits
    /\ is_repetition(board)

\* the side that made the last applied move
LastMoverSide == IF board.turn = WHITE THEN BLACK ELSE WHITE

\* C7: a game that ends by checkmate records the side that made the last
\* applied move as the winner: llm_won iff that move was the LLM's (for either
\* colour assignment), white_won iff it was White's.
C7_MateWinner ==
    (pc = "done" /\ is_checkmate(board)) =>
        IF game.kind = "engine"
        THEN /\ game_record.result \in {"llm_won", "engine_won"}
             /\ game_record.result = "llm_won" <=>
                    movers[Len(movers)] = "llm"
             /\ game_record.result = "llm_won" <=>
                    ((LastMoverSide = WHITE) = game.llm_plays_white)
        ELSE /\ game_record.result \in {"white_won", "black_won"}
             /\ game_record.result = "white_won" <=>
                    movers[Len(movers)] = "white"
             /\ game_record.result = "white_won" <=> LastMoverSide = WHITE

\* the LLM, playing Black, mated the engine after two rejected proposals
C7_Witness ==
    /\ pc = "done"
    /\ game.kind = "engine"
    /\ ~game.llm_plays_white
    /\ is_checkmate(board)
    /\ game_record.result = "llm_won"
    /\ game_record.illegal_moves = 2

\* C8: a rejection that leaves the count below 3 does not advance the turn:
\* position, side to move and moves list are unchanged, the game goes on, and
\* the next proposal is requested from the same source.
C8_RejectionKeepsTurn ==
    [][ /\ (RejectedStep /\ Get(illegal_moves_count', Proposer) < 3) =>
              /\ board' = board
              /\ game_record' = game_record
              /\ movers' = movers
              /\ pc' = "loop"
        /\ (pc = "loop" /\ last.verdict = "illegal" /\ nreq' = nreq + 1) =>
              last'.src = last.src ]_vars

\* Black was asked again after a rejected proposal, and was rejected again
C8_Witness ==
    /\ pc = "loop"
    /\ last.src = "black"
    /\ last.verdict = "illegal"
    /\ game.white # game.black
    /\ Count(game.black) = 2
    /\ board.turn = BLACK

\* C9: validate_move on a rejected proposal returns (False, None), adds exactly
\* 1 to the count of the model_name it was given, leaves every other count as
\* it was and does not change the board.
C9_RejectionCounts ==
    [][ RejectedStep =>
          LET v == validate_move(illegal_moves_count, board, last'.reply,
                                 Proposer)
          IN  /\ ~v.is_legal
              /\ v.move = NoMove
              /\ DOMAIN illegal_moves_count' =
                    DOMAIN illegal_moves_count \cup {Proposer}
              /\ \A n \in DOMAIN illegal_moves_count' :
                    illegal_moves_count'[n] =
                        IF n = Proposer THEN Count(n) + 1
                        ELSE illegal_moves_count[n]
              /\ board' = board ]_vars

\* a null move of Black was rejected: Black's count rose, White's stayed
C9_Witness ==
    /\ last.src = "black"
    /\ last.reply = [text |-> "--", ws |-> FALSE]
    /\ last.verdict = "illegal"
    /\ game.white # game.black
    /\ Count(game.black) = 1
    /\ Count(game.white) = 2

\* C10: validate_move on a legal proposal returns the move and leaves every
\* count as it was (no increment, no reset of an earlier count); the game then
\* applies exactly that move and the side to move flips.
C10_AcceptanceKeepsCounts ==
    [][ AcceptedStep =>
          LET v == validate_move(illegal_moves_count, board, last'.reply,
                                 Proposer)
          IN  /\ v.is_legal
              /\ v.move = [san |-> last'.reply.text]
              /\ v.move \in legal_moves(board)
              /\ illegal_moves_count' = illegal_moves_count
              /\ board'.move_stack = Append(board.move_stack, v.move)
              /\ board'.turn # board.turn
              /\ game_record'.moves = Append(game_record.moves, Str(v.move)) ]_vars

\* a legal move of White was applied while White's count stood at 2
C10_Witness ==
    /\ last.src = "white"
    /\ last.verdict = "legal"
    /\ game.white # game.black
    /\ Count(game.white) = 2
    /\ board.turn = BLACK
    /\ Len(game_record.moves) = 3

\* the move strings validate_move rejects on position b because they do not
\* parse, and those it rejects because the parsed move is not legal
ParseFailures(b) == {s \in Strings : ~parse_san(b, Strip(s)).ok}

ParsedNotLegal(b) ==
    {s \in Strings : /\ parse_san(b, Strip(s)).ok
                     /\ parse_san(b, Strip(s)).move \notin legal_moves(b)}

\* C11: a proposal that fails to parse and a proposal that parses but is not
\* legal have the same outcome from validate_move: it returns (False, None)
\* and adds 1 to the count of the proposing agent, so on every mapping and
\* position the two calls leave the same return value and the same mapping.
C11_RejectionsAlike ==
    [][ (last'.src = "validate_move" /\ last'.verdict = "illegal"
         /\ last' # last) =>
          /\ last'.reply \in ParseFailures(board) \cup ParsedNotLegal(board)
          /\ last'.move = NoMove
          /\ illegal_moves_count' =
                Put(illegal_moves_count, last'.model_name,
                    Get(illegal_moves_count, last'.model_name) + 1)
          /\ \A s \in ParseFailures(board), t \in ParsedNotLegal(board) :
                validate_move(illegal_moves_count, board, s, last'.model_name) =
                validate_move(illegal_moves_count, board, t, last'.model_name)
       ]_vars

\* a null move, which parses, was rejected for a model_name that had one
\* rejection already
C11_Witness ==
    /\ pc = "validator"
    /\ last.src = "validate_move"
    /\ last.reply.text = "--"
    /\ last.reply \in ParsedNotLegal(board)
    /\ last.verdict = "illegal"
    /\ last.move = NoMove
    /\ Get(illegal_moves_count, last.model_name) = 2

\* C12: get_illegal_moves_count returns the count of the model_name, 0 when
\* it has no entry, and leaves the mapping as it was (no entry is created);
\* the mapping changes only in reset_counter and in a validate_move that
\* rejects.
C12_GetIsPure ==
    /\ [][ (/\ last'.src = "get_illegal_moves_count"
            /\ <<last, illegal_moves_count>>' # <<last, illegal_moves_count>>) =>
              /\ illegal_moves_count' = illegal_moves_count
              /\ last'.value =
                    IF last'.model_name \in DOMAIN illegal_moves_count
                    THEN illegal_moves_count[last'.model_name] ELSE 0 ]_vars
    /\ [][ illegal_moves_count' # illegal_moves_count =>
              \/ last'.src = "reset_counter"
              \/ last'.src = "validate_move" /\ last'.verdict = "illegal" ]_vars

\* the count of a model_name without an entry was read as 0 while another
\* model_name had a count, and no entry appeared
C12_Witness ==
    /\ pc = "validator"
    /\ last.src = "get_illegal_moves_count"
    /\ last.model_name = "m2"
    /\ last.value = 0
    /\ DOMAIN illegal_moves_count = {"m1"}
    /\ illegal_moves_count["m1"] = 2

\* C13: when the first proposal of a game is requested, every participating
\* agent has an entry with count 0, whatever counts the earlier games on the
\* same GameManager left.
C13_CountsStartAtZero ==
    (pc = "loop" /\ nreq = 0) =>
        \A n \in Players : n \in DOMAIN illegal_moves_count /\ Count(n) = 0

\* a second game is about to ask m1, who forfeited the first game with count 3,
\* for its first proposal
C13_Witness ==
    /\ ngames = 2
    /\ pc = "loop"
    /\ nreq = 0
    /\ "m1" \in Players
    /\ Len(game_history) = 1
    /\ game_history[1].result = "engine_won_illegal_moves"
    /\ game_history[1].illegal_moves = 3
    /\ Count("m1") = 0

\* C14: in play_llm_vs_engine the engine is running while the game is in
\* progress and has been stopped, by exactly one call of stop, when the call
\* is left: by return after natural termination, forfeiture or engine failure,
\* or by an exception raised in the loop; once it is stopped no proposal is
\* requested and no move is applied in that game.
C14_EngineStopped ==
    /\ [](game.kind = "engine" =>
            /\ InGame => (engine = "started" /\ nstops = 0)
            /\ pc \in {"done", "raised"} => (engine = "stopped" /\ nstops = 1))
    /\ [][ (game.kind = "engine" /\ engine = "stopped" /\ ngames' = ngames) =>
              /\ nreq' = nreq
              /\ last' = last
              /\ board' = board ]_vars

\* the LLM's get_move raised after moves had been played: the call was left by
\* the exception with the engine stopped once
C14_Witness ==
    /\ game.kind = "engine"
    /\ pc = "raised"
    /\ last.reply = Raised
    /\ Len(game_record.moves) > 0
    /\ engine = "stopped"
    /\ nstops = 1

\* C15: no failure of a move-proposal request propagates out of the game:
\* whatever fails inside LLMPlayer.get_move, rate-limit handling included,
\* play_llm_vs_engine and play_llm_vs_llm are never left by an exception.
C15_NothingEscapes == pc # "raised"

\* C16: in play_llm_vs_llm the reported white_illegal_moves and
\* black_illegal_moves are the numbers of rejected proposals that side made in
\* this game, and a side forfeits only after 3 rejected proposals of its own,
\* for every pair of players, two players with the same model_name included.
C16_CountsPerSide ==
    (pc = "done" /\ game.kind = "llm") =>
        /\ game_record.white_illegal_moves = rejects["white"]
        /\ game_record.black_illegal_moves = rejects["black"]
        /\ game_record.result = "black_won_illegal_moves" =>
              rejects["white"] >= 3
        /\ game_record.result = "white_won_illegal_moves" =>
              rejects["black"] >= 3

\* the text of the moves on the move stack of b, as the record lists them
StackText(b) == [i \in 1..Len(b.move_stack) |-> Str(b.move_stack[i])]

\* the source that proposes for agent n in the game, if it is the only one
SourceOf(n) ==
    IF game.kind = "engine" THEN "llm"
    ELSE IF n = game.white THEN "white" ELSE "black"

\* C17: with two games driven on one GameManager, their turns interleaved,
\* neither game's position, moves or counts are changed by the other game:
\* whenever a game runs, the position it plays on is the one its own moves
\* made, and the count of each of its agents is the number of that agent's
\* own rejected proposals in it.
C17_GamesIsolated ==
    InGame =>
        /\ game_record.moves = StackText(board)
        /\ (game.kind = "llm" => game.white # game.black) =>
              \A n \in Players : Count(n) = rejects[SourceOf(n)]

\* C18: every move pushed on the board and appended to the record is a legal
\* move of the position it is pushed on; a move of an LLM is the move
\* validate_move accepted for the proposal just made, a move of the engine is
\* the move the engine returned for that position.
C18_AppliedMovesLegal ==
    [][ (board'.move_stack # board.move_stack /\ ngames' = ngames) =>
          \E m \in legal_moves(board) :
              /\ board'.move_stack = Append(board.move_stack, m)
              /\ game_record'.moves = Append(game_record.moves, Str(m))
              /\ movers' = Append(movers, last'.src)
              /\ IF last'.src \in LLMSources
                 THEN LET v == validate_move(illegal_moves_count, board,
                                             last'.reply, Proposer)
                      IN  last'.verdict = "legal" /\ v.is_legal /\ v.move = m
                 ELSE last'.src = "engine" /\ last'.reply = m ]_vars

\* a game in which moves of the LLM and moves of the engine were applied
C18_Witness ==
    /\ game.kind = "engine"
    /\ Len(board.move_stack) >= 4
    /\ \E i, j \in 1..Len(movers) : movers[i] = "llm" /\ movers[j] = "engine"
    /\ last.src = "engine"
    /\ last.reply \in legal_moves(NewBoard)

\* the results of a game that ended on its position, and the condition on the
\* position that each of them records
NaturalResults ==
    {"llm_won", "engine_won", "white_won", "black_won", "draw_stalemate",
     "draw_insufficient_material", "draw_fifty_moves", "draw_repetition"}

ConditionOf(result, b) ==
    CASE result \in {"llm_won", "engine_won", "white_won", "black_won"} ->
            is_checkmate(b)
      [] result = "draw_stalemate" -> is_stalemate(b)
      [] result = "draw_insufficient_material" -> is_insufficient_material(b)
      [] result = "draw_fifty_moves" -> is_fifty_moves(b)
      [] result = "draw_repetition" -> is_repetition(b)

\* C19: at every point of a game the moves list of the record is the move
\* stack of the board, move by move in the order applied, so the position the
\* list replays to is the board; in a sealed record of a game that ended on
\* its position the side to move is the one the length of the list gives and
\* the condition recorded in result holds on that position.
C19_RecordReplays ==
    game.kind # "none" =>
        /\ game_record.moves = StackText(board)
        /\ Len(game_record.moves) = Len(movers)
        /\ (pc = "done" /\ game_record.result \in NaturalResults) =>
              /\ board.turn = IF Len(game_record.moves) % 2 = 0
                               THEN WHITE ELSE BLACK
              /\ ConditionOf(game_record.result, board)

\* a sealed record of a game drawn by repetition, in which proposals were
\* rejected on the way: its moves are the move stack of the final position
C19_Witness ==
    /\ pc = "done"
    /\ game_record.result = "draw_repetition"
    /\ Len(game_record.moves) >= 16
    /\ nreq > Len(game_record.moves)
    /\ game_record.moves = StackText(board)
    /\ is_fivefold_repetition(board)

Wins == {"llm_won", "engine_won", "white_won", "black_won"}

\* C20: the result of a game that ended on its position is the first of
\* checkmate, stalemate, insufficient material, fifty-move rule, threefold
\* repetition that holds on the final position: each condition gives its
\* result exactly when no earlier condition of the list holds.
C20_Precedence ==
    (pc = "done" /\ game_record.result \in NaturalResults) =>
        LET r == game_record.result
            cm == is_checkmate(board)
            sm == is_stalemate(board)
            im == is_insufficient_material(board)
            fm == is_fifty_moves(board)
            rp == is_repetition(board)
        IN  /\ r \in Wins <=> cm
            /\ r = "draw_stalemate" <=> (~cm /\ sm)
            /\ r = "draw_insufficient_material" <=> (~cm /\ ~sm /\ im)
            /\ r = "draw_fifty_moves" <=> (~cm /\ ~sm /\ ~im /\ fm)
            /\ r = "draw_repetition" <=> (~cm /\ ~sm /\ ~im /\ ~fm /\ rp)

\* a game between two LLMs ended with the fifty-move rule and a repetition
\* both holding on the final position: the result is draw_fifty_moves
C20_Witness ==
    /\ pc = "done"
    /\ game.kind = "llm"
    /\ is_fifty_moves(board)
    /\ is_repetition(board)
    /\ game_record.result = "draw_fifty_moves"

\* C21: a game whose play_* call was left by an exception is never reported:
\* the exception adds no record to game_history or to the ResultsManager, the
\* records main has added are the records the calls returned, in order, and
\* every record in either list has a result of the enumerated values.
C21_AbortedNeverReported ==
    /\ [](LET results == results_manager.results
          IN  /\ \A i \in 1..Len(game_history) :
                    game_history[i].result \in Results
              /\ Len(results) <= Len(game_history)
              /\ \A i \in 1..Len(results) :
                    /\ results[i] = game_history[i]
                    /\ results[i].result \in Results)
    /\ [][ (pc' = "raised" /\ pc # "raised") =>
              /\ game_record.result = None
              /\ game_history' = game_history
              /\ results_manager' = results_manager ]_vars

\* of two games the second was left by an exception after proposals had been
\* rejected, main went on, and only the record of the first is reported
C21_Witness ==
    /\ mpc \in {"engine_games", "llm_games"}
    /\ ngames = 2
    /\ pc = "idle"
    /\ last.reply = Raised
    /\ nreq > 2
    /\ game_record.result = None
    /\ Len(game_history) = 1
    /\ Len(results_manager.results) = 1

\* the source that moves for a side in the game
SourceFor(side) ==
    IF game.kind = "llm" THEN (IF side = WHITE THEN "white" ELSE "black")
    ELSE IF (side = WHITE) = game.llm_plays_white THEN "llm" ELSE "engine"

\* C22: the source of each side is the same for the whole game: a proposal
\* is requested only from the source of the side to move, and the k-th
\* applied move (counting from 0) came from White's source iff k is even,
\* whatever proposals were rejected in between.
C22_SourcesAlternate ==
    /\ [](game.kind # "none" =>
            \A k \in 0..(Len(movers) - 1) :
                movers[k + 1] = SourceFor(IF k % 2 = 0 THEN WHITE ELSE BLACK))
    /\ [][ (nreq' = nreq + 1) => last'.src = SourceFor(board.turn) ]_vars

\* the LLM plays Black: after rejected proposals of the LLM the moves still
\* alternate engine, LLM, engine
C22_Witness ==
    /\ game.kind = "engine"
    /\ ~game.llm_plays_white
    /\ movers = <<"engine", "llm", "engine">>
    /\ rejects["llm"] = 2
    /\ pc = "loop"

\* C23: every game starts in the standard starting position, White to move,
\* with an empty moves list, whatever position the earlier game on the same
\* GameManager ended in and however it ended.
C23_StartsFresh ==
    /\ []((pc = "loop" /\ nreq = 0) =>
            /\ board = NewBoard
            /\ board.turn = WHITE
            /\ game_record.moves = <<>>
            /\ game_record.result = None)
    /\ [][ ngames' = ngames + 1 =>
              (pc' = "loop" /\ nreq' = 0 /\ board' = NewBoard) ]_vars

\* a second game is about to start its loop; the first ended, after rejected
\* proposals, on a position other than the starting one
C23_Witness ==
    /\ ngames = 2
    /\ pc = "loop"
    /\ nreq = 0
    /\ board = NewBoard
    /\ Len(game_history) = 1
    /\ Len(game_history[1].moves) > 0
    /\ Count("m1") = 0
    /\ game_history[1].kind = "engine"
    /\ game_history[1].illegal_moves = 2

\* C24: every game comes to its end as long as the source calls return (an
\* exception that leaves the call ends it as well); within a game no source
\* has more than 3 proposals rejected, one more rejection being possible only
\* while its agent's count is below 3, and of two distinct agents of an
\* LLM-vs-LLM game at most one ends with count 3, the other with at most 2.
C24_GamesTerminate ==
    /\ [](\A src \in LLMSources : rejects[src] <= 3)
    /\ [][ RejectedStep => Count(Proposer) < 3 ]_vars
    /\ []((pc = "done" /\ game.kind = "llm" /\ game.white # game.black) =>
            \/ Count(game.white) <= 2 /\ Count(game.black) <= 3
            \/ Count(game.white) <= 3 /\ Count(game.black) <= 2)
    /\ (pc = "loop") ~> (pc \in {"done", "raised"})

\* a game of two distinct agents ended by Black's forfeit with White at 2
C24_Witness ==
    /\ pc = "done"
    /\ game.kind = "llm"
    /\ game.white # game.black
    /\ Count(game.white) = 2
    /\ Count(game.black) = 3
    /\ rejects["black"] = 3
    /\ Len(game_record.moves) > 1

\* C25: when ChessEngine.get_move returns None the game ends at once with
\* error_engine_move: no move is pushed or appended, the LLM's count stays as
\* it was, the engine is not asked again, and the record is returned with that
\* result even where a terminal condition holds on the position.
C25_EngineFailureEnds ==
    /\ [][ (nreq' = nreq + 1 /\ last'.src = "engine" /\ last'.reply = NoMove) =>
              /\ pc' = "post"
              /\ game_record'.result = "error_engine_move"
              /\ game_record'.moves = game_record.moves
              /\ board' = board
              /\ illegal_moves_count' = illegal_moves_count ]_vars
    /\ [][ (pc = "post" /\ game_record.result = "error_engine_move") =>
              /\ pc' = "done"
              /\ nreq' = nreq
              /\ last' = last
              /\ board' = board
              /\ game_record'.moves = game_record.moves
              /\ game_record'.result = "error_engine_move"
              /\ game_record'.illegal_moves = Count(game.llm) ]_vars

\* the engine failed on a position on which a threefold repetition holds,
\* with one proposal of the LLM rejected: the record says error_engine_move
C25_Witness ==
    /\ pc = "done"
    /\ game_record.result = "error_engine_move"
    /\ last.src = "engine"
    /\ last.reply = NoMove
    /\ is_repetition(board)
    /\ game_record.illegal_moves = 1

\* the indices below k at which rendering failed
FailedBelow(fails, k) == Cardinality({j \in fails : j < k})

\* C26: _format_move_history reads the move stack and writes nothing: board,
\* moves and counts are as before the call and the call returns; a move that
\* fails to render is left out of the transcript and the others follow in
\* order; the k-th applied move (from 0) carries the move number k/2 + 1
\* exactly when k is even.
C26_FormatIsPure ==
    [][ (last'.src = "_format_move_history" /\ last' # last) =>
          LET stack == board.move_stack
              fails == last'.fails
              moves == last'.moves
          IN  /\ board' = board
              /\ illegal_moves_count' = illegal_moves_count
              /\ game_record' = game_record
              /\ pc' = pc
              /\ Len(moves) = Len(stack) - Cardinality(fails)
              /\ \A k \in (0..(Len(stack) - 1)) \ fails :
                    LET entry == moves[k - FailedBelow(fails, k) + 1]
                    IN  /\ entry.san = stack[k + 1].san
                        /\ k % 2 = 0 => entry.number = (k \div 2) + 1
                        /\ k % 2 = 1 => entry.number = 0 ]_vars

\* of three moves the second failed to render: the third is in the transcript
\* as move 2
C26_Witness ==
    /\ pc = "format"
    /\ last.src = "_format_move_history"
    /\ Len(board.move_stack) = 3
    /\ last.fails = {1}
    /\ Len(last.moves) = 2
    /\ last.moves[1].number = 1
    /\ last.moves[2].number = 2

\* C27: when main has finished, what save_results wrote holds the record of
\* every game that was played and added to the ResultsManager, the
\* LLM-vs-engine games and the LLM-vs-LLM games alike.
C27_AllSaved ==
    mpc = "finished" =>
        /\ results_manager.nsaves > 0
        /\ results_manager.saved = results_manager.results

\* the requests that went out in the window of Window seconds that starts with
\* the i-th request
InWindowFrom(i) ==
    {j \in 1..Len(issued) :
        issued[i] <= issued[j] /\ issued[j] < issued[i] + Window}

\* C28: the rate limiter keeps the requests within the budget: in no window
\* of 60 seconds do more than requests_per_minute completion requests go out,
\* and after every _handle_rate_limit call requests_this_minute is at least 1
\* and at most max(1, requests_per_minute).
C28_WithinBudget ==
    LET rpm == llm_player.provider_config.requests_per_minute
    IN  /\ \A i \in 1..Len(issued) : Cardinality(InWindowFrom(i)) <= rpm
        /\ Len(issued) > 0 =>
              /\ llm_player.requests_this_minute >= 1
              /\ llm_player.requests_this_minute <= IF rpm > 1 THEN rpm ELSE 1

====
